---- MODULE Spec2Model ----
(***************************************************************************)
(* Session correlation and report commit of the voice evaluation backend   *)
(* (src/server.py): the three in-memory maps, start_session, vapi_webhook  *)
(* and the Supabase "evaluations" table it inserts into.                   *)
(*                                                                         *)
(* Strings the code measures or searches (candidate names, emails) are     *)
(* sequences of one-character strings.  A session identifier               *)
(* f"session_{role}_{timestamp}" is the record [role, timestamp]: the role *)
(* ids hold no digits and the timestamp only digits, so the formatted      *)
(* string determines the pair and the pair the string.                     *)
(*                                                                         *)
(* Four specifications share the handlers: Spec runs them on every kind of *)
(* request; NormSpec feeds the report handler with the shapes of a report  *)
(* (scores, timestamps, texts); HistSpec keeps the history of starts and   *)
(* links; ThreadSpec runs start_session write by write.                    *)
(***************************************************************************)
EXTENDS Integers, Sequences, FiniteSets, TLC

VARIABLES
    sessions,              \* dict session_id -> session record, in insertion order
    call_to_session,       \* dict call id -> session_id
    assistant_to_session,  \* dict assistant id -> session_id
    evaluations,           \* rows inserted into the Supabase table "evaluations"
    pc,                    \* position of the webhook coroutine: "idle" | "insert"
    pending,               \* locals of the webhook handler blocked in the insert
    req,                   \* the kind of request whose handler took the last step
    resp,                  \* the response that handler returned
    issued,                \* the sessionIds start_session has returned
    created,               \* history: the stored sessions' ids, the last started last
    linked,                \* history: the <<call id, session_id>> links ever made
    starting               \* the start_session calls between their two writes

vars == <<sessions, call_to_session, assistant_to_session, evaluations,
          pc, pending, req, resp, issued, created, linked, starting>>

\* The history the claims on creation order and on past links need. It is kept
\* under HistSpec and left empty under the other specifications.
history == <<created, linked>>

stores == <<sessions, call_to_session, assistant_to_session>>

----------------------------------------------------------------------------
\* Bounds of the model.

\* Sessions followed at a time: start_session is explored while the sessions in
\* the store and the rows committed are fewer than this.
MaxSessions == 2

\* Millisecond clock readings are drawn from 1..MaxClock.
MaxClock == 2

\* start_session calls that are between their two writes at a time.
MaxThreads == 2

----------------------------------------------------------------------------
\* Values.

\* Python's None where a string is expected (a missing call id, assistant id, type).
None == "None"

\* None where a session identifier is expected.
NoSession == [role |-> None, timestamp |-> 0]

\* session_id = f"session_{req.role}_{timestamp}"
SessionId(role, timestamp) == [role |-> role, timestamp |-> timestamp]

\* A string of n characters.
Chars(n) == [i \in 1..n |-> "x"]

\* JSON values of a payload member: a number, a string, or the member is missing.
Num(n) == [t |-> "num", n |-> n, s |-> <<>>]
Str(s) == [t |-> "str", n |-> 0, s |-> s]
Absent == [t |-> "absent", n |-> 0, s |-> <<>>]

\* The decimal digits, as characters.
Digits == <<"0", "1", "2", "3", "4", "5", "6", "7", "8", "9">>

IsDigit(c) == \E d \in 1..10 : Digits[d] = c

DigitValue(c) == (CHOOSE d \in 1..10 : Digits[d] = c) - 1

\* A text of n characters that differ from place to place and from text to text.
Text(n) == [i \in 1..n |-> Digits[((i + n) % 10) + 1]]

\* The object the evaluator fills in: {} is the object with every member missing.
EmptyObject ==
    [overall |-> Absent, rec |-> Absent,
     s1 |-> Absent, s2 |-> Absent, s3 |-> Absent, s4 |-> Absent, s5 |-> Absent,
     str1 |-> Absent, str2 |-> Absent, str3 |-> Absent,
     imp1 |-> Absent, imp2 |-> Absent]

\* "No transcript available" and "N/A", the defaults of the report's texts.
NoTranscript ==
    <<"N", "o", " ", "t", "r", "a", "n", "s", "c", "r", "i", "p", "t", " ",
      "a", "v", "a", "i", "l", "a", "b", "l", "e">>

NotAvailable == <<"N", "/", "A">>

\* The role registry. The assistant ids come from the environment at startup:
\* two roles are configured here and two are left unset.
ROLES ==
    [project_manager |-> [title |-> "Project Manager", assistant_id |-> "asst_pm",
                          criteria |-> <<"Problem Solving", "Leadership", "Communication",
                                         "Accountability", "Planning">>],
     team_lead       |-> [title |-> "Team Lead", assistant_id |-> "asst_tl",
                          criteria |-> <<"Mentoring", "Technical Decisions", "Communication",
                                         "Conflict Resolution", "Process">>],
     product_owner   |-> [title |-> "Product Owner", assistant_id |-> None,
                          criteria |-> <<"Strategy", "Data-Driven", "Stakeholders",
                                         "User Focus", "Prioritization">>],
     sales_manager   |-> [title |-> "Sales Manager", assistant_id |-> None,
                          criteria |-> <<"Sales Skills", "Coaching", "Accounts",
                                         "Forecasting", "Pressure">>]]

\* Field(min_length=1, max_length=100) of SessionRequest.candidate_name
MinNameLen == 1
MaxNameLen == 100

----------------------------------------------------------------------------
\* Inputs.

RoleIds == {"project_manager", "team_lead", "product_owner", "intern"}

InvalidNames == {<<>>, Chars(MaxNameLen + 1)}

InvalidEmails == {<<"a", "x">>}

CallIds == {"call_1", "call_2", None}

AssistantIds == {"asst_pm", "asst_tl", "asst_zz", None}

\* The bodies of POST /session/start: two candidates with a valid name and email,
\* and requests with a bad name or a bad email, for every role id.
SessionRequests ==
    [role : RoleIds, candidate_name : {<<"A">>}, user_email : {<<"a", "@", "x">>}]
    \cup [role : RoleIds, candidate_name : {Chars(MaxNameLen)},
          user_email : {<<"b", "@", "x">>}]
    \cup [role : RoleIds, candidate_name : InvalidNames, user_email : {<<"a", "@", "x">>}]
    \cup [role : RoleIds, candidate_name : {<<"A">>}, user_email : InvalidEmails]
    \cup [role : {"intern"}, candidate_name : InvalidNames, user_email : InvalidEmails]

\* A webhook payload, by the members the handler reads. shape says how far the
\* payload is well formed: request.json() raises on "invalid_json", message.get
\* raises when "message" is not an object, message.get("call", {}).get raises
\* when "call" is not an object.
Payload(shape, message_type, type, call_id, assistantId, assistant_id, overall) ==
    [shape |-> shape,
     message_type |-> message_type,  \* message["type"]
     type |-> type,                  \* payload["type"]
     call_id |-> call_id,            \* message["call"]["id"]
     assistantId |-> assistantId,    \* message["assistantId"]
     assistant_id |-> assistant_id,  \* message["assistant"]["id"]
     transcript |-> Absent,          \* message["transcript"]
     structuredOutputs |-> <<>>,     \* message["artifact"]["structuredOutputs"]
     structuredData |->              \* message["analysis"]["structuredData"]
         [EmptyObject EXCEPT !.overall = overall],
     startedAt |-> Absent,           \* message["call"]["startedAt"]
     endedAt |-> Absent]             \* message["call"]["endedAt"]

\* The bodies of POST /webhook/vapi: malformed ones, events of other types or of
\* none, assistant requests and end-of-call reports. The message type wins over
\* the root type; an assistant request always carries a call id here, a report
\* may lack one.
Payloads ==
    {Payload(s, "end-of-call-report", None, "call_1", None, None, Absent) :
        s \in {"invalid_json", "message_not_object", "call_not_object"}}
    \cup {Payload("call_not_object", "assistant-request", None, None, None, "asst_pm",
                  Absent)}
    \cup {Payload(s, mt, None, "call_1", None, "asst_pm", Absent) :
            s \in {"ok", "call_not_object"}, mt \in {"status-update", None}}
    \cup {Payload("ok", None, "status-update", "call_1", None, "asst_pm", Absent)}
    \cup {Payload("ok", "assistant-request", None, c, None, a, Absent) :
            c \in CallIds \ {None}, a \in AssistantIds}
    \cup {Payload("ok", "assistant-request", "end-of-call-report", c, "asst_pm", a, Absent) :
            c \in {"call_1"}, a \in {"asst_tl", None}}
    \cup {Payload("ok", "end-of-call-report", None, c, None, None, o) :
            c \in CallIds, o \in {Absent, Str(<<"n", "a">>)}}
    \cup {Payload("ok", None, "end-of-call-report", "call_2", None, None, Absent)}

\* An end-of-call-report for a call, by the members the normalisation reads.
Report(call_id, transcript, structuredOutputs, structuredData, startedAt, endedAt) ==
    [Payload("ok", "end-of-call-report", None, call_id, None, None, Absent)
        EXCEPT !.transcript = transcript,
               !.structuredOutputs = structuredOutputs,
               !.structuredData = structuredData,
               !.startedAt = startedAt,
               !.endedAt = endedAt]

TwoDigits(n) == <<Digits[(n \div 10) + 1], Digits[(n % 10) + 1]>>

\* The timestamp of day d of January 1970, as the voice service writes it.
IsoZ(d, h, mi, sec) ==
    <<"1", "9", "7", "0", "-", "0", "1", "-">> \o TwoDigits(d) \o <<"T">>
    \o TwoDigits(h) \o <<":">> \o TwoDigits(mi) \o <<":">> \o TwoDigits(sec) \o <<"Z">>

\* The same with milliseconds.
IsoMsZ(d, h, mi, sec, ms) ==
    SubSeq(IsoZ(d, h, mi, sec), 1, 19) \o <<".", Digits[(ms \div 100) + 1]>>
    \o TwoDigits(ms % 100) \o <<"Z">>

\* The values of startedAt and endedAt: missing, empty, not a timestamp (a word,
\* a number, the 30th of February), and timestamps before, on and after
\* 10:00 of the second day.
Timestamps ==
    {Absent, Str(<<>>), Str(<<"s", "o", "o", "n">>), Num(5),
     Str(<<"1", "9", "7", "0", "-", "0", "2", "-", "3", "0", "T",
           "1", "0", ":", "0", "0", ":", "0", "0", "Z">>),
     Str(IsoZ(1, 9, 0, 0)), Str(IsoZ(2, 10, 0, 0)), Str(IsoZ(2, 10, 0, 59)),
     Str(IsoZ(2, 10, 7, 30)), Str(IsoMsZ(2, 10, 7, 59, 999))}

\* What the evaluator reports. The first structured output says 9 overall, the
\* second 5, analysis.structuredData 3, a structured output that comes alone 8.
FirstOutput ==
    [EmptyObject EXCEPT !.overall = Num(9), !.s1 = Num(9), !.s2 = Str(<<"8">>),
                        !.rec = Str(<<"h", "i", "r", "e">>)]

SecondOutput == [EmptyObject EXCEPT !.overall = Num(5), !.s1 = Num(5)]

AnalysisData ==
    [EmptyObject EXCEPT !.overall = Num(3), !.s1 = Num(3), !.s3 = Num(3),
                        !.rec = Str(<<"h", "o", "l", "d">>)]

LoneOutput == [EmptyObject EXCEPT !.overall = Num(8), !.s5 = Num(8)]

\* The two places of the structured data, artifact.structuredOutputs (by its
\* entries in their order; none when the collection is missing or empty) and
\* analysis.structuredData: neither, the second alone, the first alone, both,
\* and both with a first entry that has no "result".
StructuredPlaces ==
    {<< <<>>, EmptyObject >>,
     << <<>>, AnalysisData >>,
     << <<[result |-> LoneOutput]>>, EmptyObject >>,
     << <<[result |-> FirstOutput], [result |-> SecondOutput]>>, AnalysisData >>,
     << <<[result |-> EmptyObject], [result |-> SecondOutput]>>, AnalysisData >>}

\* Free texts around the limit of 500, and a number where a text is expected.
FreeTexts ==
    {Absent, Num(70), Str(<<"o", "k">>), Str(Text(499)), Str(Text(500)),
     Str(Text(501)), Str(Text(1200))}

\* Transcripts around the limit of 3000, and a number where a text is expected.
Transcripts ==
    {Absent, Str(Text(10)), Str(Text(2999)), Str(Text(3000)), Str(Text(3001)), Num(1)}

\* The end-of-call-reports the normalisation is explored with: every pair of
\* timestamps, every pairing of the two places of the structured data, the
\* texts and transcripts around their limits, and a score that is no number.
ReportPayloads ==
    {Report("call_1", Absent, <<>>, AnalysisData, s, e) :
        s \in Timestamps, e \in Timestamps}
    \cup {Report("call_1", Absent, places[1], places[2], Absent, Absent) :
            places \in StructuredPlaces}
    \cup {Report("call_1", t, <<>>,
                 [EmptyObject EXCEPT !.rec = x, !.str1 = x, !.imp2 = x],
                 Absent, Absent) :
            t \in Transcripts, x \in FreeTexts}
    \cup {Report("call_1", Absent, <<>>, [EmptyObject EXCEPT !.s4 = v],
                 Str(IsoZ(2, 10, 0, 0)), Str(IsoZ(2, 10, 7, 30))) :
            v \in {Str(<<"n", "a">>), Str(<<"4">>), Num(4)}}

----------------------------------------------------------------------------
\* Python dicts.

\* d.get(k) of a dict whose values are session identifiers
Get(d, k) == IF k \in DOMAIN d THEN d[k] ELSE NoSession

\* d[k] = v
Set(d, k, v) == [x \in DOMAIN d \cup {k} |-> IF x = k THEN v ELSE d[x]]

\* A pop that leaves the key in the dict.
PopKeepsKey(d, k) == d

\* d.pop(k, None)
Pop(d, k) == [x \in DOMAIN d \ {k} |-> d[x]]

\* list(sessions.keys())
Keys(s) == [i \in 1..Len(s) |-> s[i].session_id]

\* session_id in sessions
Has(s, k) == \E i \in 1..Len(s) : s[i].session_id = k

\* sessions[session_id]
Lookup(s, k) == s[CHOOSE i \in 1..Len(s) : s[i].session_id = k]

\* A write that replaces the whole store by the one session.
StoreAlone(s, k, rec) == <<rec>>

\* sessions[session_id] = rec: a key already present keeps its place in the order
Store(s, k, rec) ==
    IF Has(s, k)
    THEN [i \in 1..Len(s) |-> IF s[i].session_id = k THEN rec ELSE s[i]]
    ELSE Append(s, rec)

\* A pop that removes nothing.
PopSessionKeepsAll(s, k) == s

\* sessions.pop(session_id, None)
PopSession(s, k) == SelectSeq(s, LAMBDA r : r.session_id # k)

\* "@" in req.user_email
HasAt(email) == \E i \in 1..Len(email) : email[i] = "@"

----------------------------------------------------------------------------
\* Requests and responses as the claims observe them.

NoRequest == [op |-> "none", event |-> None]

StartRequest == [op |-> "start_session", event |-> None]

WebhookRequest(event) == [op |-> "vapi_webhook", event |-> event]

NoResponse == [status |-> "none", code |-> 0, message |-> None, sessionId |-> NoSession]

\* raise HTTPException(code, detail), and pydantic's 422
Rejected(code, detail) ==
    [status |-> "rejected", code |-> code, message |-> detail, sessionId |-> NoSession]

\* return {"success": True, "sessionId": session_id, ...}
Success(session_id) ==
    [status |-> "success", code |-> 200, message |-> None, sessionId |-> session_id]

\* return {"status": "ok"}
Ok == [status |-> "ok", code |-> 200, message |-> None, sessionId |-> NoSession]

\* return {"status": "error", "message": ...}
Error(message) ==
    [status |-> "error", code |-> 200, message |-> message, sessionId |-> NoSession]

----------------------------------------------------------------------------
\* start_session

\* A validation that forgets the check of the email.
ValidationWithoutEmail(r) ==
    IF Len(r.candidate_name) < MinNameLen \/ Len(r.candidate_name) > MaxNameLen
    THEN Rejected(422, "validation error")
    ELSE IF r.role \notin DOMAIN ROLES
    THEN Rejected(400, "Invalid role")
    ELSE IF ROLES[r.role].assistant_id = None
    THEN Rejected(503, "Assistant not configured")
    ELSE NoResponse

\* The rejection start_session answers with, or NoResponse when the request passes:
\* pydantic checks the body before the handler runs, then the handler checks the
\* role, the role's assistant and the email, in this order.
Validation(r) ==
    IF Len(r.candidate_name) < MinNameLen \/ Len(r.candidate_name) > MaxNameLen
    THEN Rejected(422, "validation error")
    ELSE IF r.role \notin DOMAIN ROLES
    THEN Rejected(400, "Invalid role")
    ELSE IF ROLES[r.role].assistant_id = None
    THEN Rejected(503, "Assistant not configured")
    ELSE IF ~HasAt(r.user_email)
    THEN Rejected(400, "Invalid email address")
    ELSE NoResponse

\* The record stored under sessions[session_id] ("started" is written and never read).
SessionRecord(r, session_id) ==
    [session_id |-> session_id,
     role |-> r.role,
     role_title |-> ROLES[r.role].title,
     candidate |-> r.candidate_name,
     criteria |-> ROLES[r.role].criteria,
     assistant_id |-> ROLES[r.role].assistant_id,
     user_email |-> r.user_email]

\* POST /session/start. timestamp is int(datetime.now().timestamp() * 1000), a
\* reading of the wall clock: nothing makes two readings differ. The handler is a
\* plain def, which the framework runs on a worker thread, so it also runs while
\* the webhook coroutine is blocked in the insert.
start_session(r) ==
    /\ req' = StartRequest
    /\ UNCHANGED <<call_to_session, evaluations, pc, pending>>
    /\ IF Validation(r) # NoResponse
       THEN /\ resp' = Validation(r)
            /\ UNCHANGED <<sessions, assistant_to_session, issued>>
       ELSE \E timestamp \in 1..MaxClock :
              LET session_id == SessionId(r.role, timestamp)
                  assistant_id == ROLES[r.role].assistant_id
              IN /\ Len(sessions) + Len(evaluations) < MaxSessions
                 /\ sessions' = Store(sessions, session_id, SessionRecord(r, session_id))
                 /\ assistant_to_session' =
                        Set(assistant_to_session, assistant_id, session_id)
                 /\ issued' = issued \cup {session_id}
                 /\ resp' = Success(session_id)

\* start_session on its worker thread, write by write. Up to the first write,
\* sessions[session_id] = {...}, for a request that passes the checks:
start_session_store(r) ==
    /\ Validation(r) = NoResponse
    /\ Len(sessions) + Len(evaluations) < MaxSessions
    /\ Len(starting) < MaxThreads
    /\ \E timestamp \in 1..MaxClock :
         LET session_id == SessionId(r.role, timestamp)
         IN /\ sessions' = Store(sessions, session_id, SessionRecord(r, session_id))
            /\ starting' = Append(starting,
                                  [session_id |-> session_id,
                                   assistant_id |-> ROLES[r.role].assistant_id])
    /\ req' = StartRequest
    /\ resp' = NoResponse
    /\ UNCHANGED <<call_to_session, assistant_to_session, evaluations, pc, pending,
                   issued>>

\* and from the second write, assistant_to_session[assistant_id] = session_id, to
\* the response, for the call at place i of those under way.
start_session_link(i) ==
    /\ i \in 1..Len(starting)
    /\ assistant_to_session' =
           Set(assistant_to_session, starting[i].assistant_id, starting[i].session_id)
    /\ issued' = issued \cup {starting[i].session_id}
    /\ starting' = [j \in 1..(Len(starting) - 1) |->
                       IF j < i THEN starting[j] ELSE starting[j + 1]]
    /\ req' = StartRequest
    /\ resp' = Success(starting[i].session_id)
    /\ UNCHANGED <<sessions, call_to_session, evaluations, pc, pending>>

----------------------------------------------------------------------------
\* vapi_webhook

\* A handler without the except clause: the exception reaches the framework.
WebhookCrashPropagates(e) ==
    [status |-> "raised", code |-> 500, message |-> e, sessionId |-> NoSession]

\* except Exception as e: return {"status": "error", "message": str(e)}
WebhookCrash(e) == Error(e)

\* event = message.get("type") or payload.get("type")
EventOf(p) == IF p.message_type # None THEN p.message_type ELSE p.type

\* assistant_id = message.get("assistantId") or message.get("assistant", {}).get("id")
AssistantOf(p) == IF p.assistantId # None THEN p.assistantId ELSE p.assistant_id

\* A dispatch whose second branch is an else: every other event is finalized.
RouteElseFinalize(event) ==
    IF event = "assistant-request" THEN "correlate" ELSE "finalize"

\* The if / elif on the event: which branch handles it.
Route(event) ==
    IF event = "assistant-request" THEN "correlate"
    ELSE IF event = "end-of-call-report" THEN "finalize"
    ELSE "acknowledge"

\* A resolution that ignores the call's link and takes the last session.
ResolveLastSession(c2s, s, call_id) ==
    IF Len(s) > 0 THEN Keys(s)[Len(s)] ELSE NoSession

\* session_id = call_to_session.get(call_id)
\*              or (list(sessions.keys())[-1] if sessions else None)
ResolveSession(c2s, s, call_id) ==
    IF Get(c2s, call_id) # NoSession THEN Get(c2s, call_id)
    ELSE IF Len(s) > 0 THEN Keys(s)[Len(s)]
    ELSE NoSession

\* A check that forgets "session_id not in sessions".
SessionFoundByIdOnly(s, session_id) == session_id # NoSession

\* not (not session_id or session_id not in sessions)
SessionFound(s, session_id) == session_id # NoSession /\ Has(s, session_id)

\* The number a string of digits denotes.
RECURSIVE ParseInt(_)
ParseInt(s) ==
    IF Len(s) = 0 THEN 0
    ELSE 10 * ParseInt(SubSeq(s, 1, Len(s) - 1)) + DigitValue(s[Len(s)])

\* The decimal digits of a natural number.
RECURSIVE Decimal(_)
Decimal(n) ==
    IF n < 10 THEN <<Digits[n + 1]>>
    ELSE Append(Decimal(n \div 10), Digits[(n % 10) + 1])

\* A string float() and int() both accept: here, a non-empty string of digits.
IsNumeric(s) == Len(s) > 0 /\ \A i \in 1..Len(s) : IsDigit(s[i])

\* float(structured.get("overall", 0)): the value, or the exception raised
ToFloat(v) ==
    IF v.t = "absent" THEN [raised |-> None, value |-> 0]
    ELSE IF v.t = "num" THEN [raised |-> None, value |-> v.n]
    ELSE IF IsNumeric(v.s) THEN [raised |-> None, value |-> ParseInt(v.s)]
    ELSE [raised |-> "ValueError", value |-> 0]

\* int(structured.get("s1", 0)): the value, or the exception raised. The numbers
\* of the model are whole, where int() and float() agree.
ToInt(v) ==
    IF v.t = "absent" THEN [raised |-> None, value |-> 0]
    ELSE IF v.t = "num" THEN [raised |-> None, value |-> v.n]
    ELSE IF IsNumeric(v.s) THEN [raised |-> None, value |-> ParseInt(v.s)]
    ELSE [raised |-> "ValueError", value |-> 0]

\* str(structured.get(key, default))
ToStr(v, default) ==
    IF v.t = "absent" THEN default
    ELSE IF v.t = "num" THEN Decimal(v.n)
    ELSE v.s

\* A slice that keeps the end of the text.
TruncateTail(s, n) == SubSeq(s, IF Len(s) < n THEN 1 ELSE Len(s) - n + 1, Len(s))

\* s[:n]
Truncate(s, n) == SubSeq(s, 1, IF Len(s) < n THEN Len(s) ELSE n)

\* [:500] of the free texts and [:3000] of the transcript
MaxTextLen == 500
MaxTranscriptLen == 3000

\* transcript = message.get("transcript", "No transcript available")
TranscriptOf(p) ==
    IF p.transcript.t = "absent" THEN Str(NoTranscript) ELSE p.transcript

\* An extraction that looks at analysis.structuredData first.
StructuredFromAnalysis(p) ==
    IF p.structuredData # EmptyObject THEN p.structuredData
    ELSE IF Len(p.structuredOutputs) > 0 THEN p.structuredOutputs[1].result
    ELSE EmptyObject

\* structured: the first entry's "result" of artifact.structuredOutputs when that
\* collection is not empty, else analysis.structuredData; a missing collection
\* is the empty one, a missing "result" or "structuredData" the empty object.
StructuredOf(p) ==
    IF Len(p.structuredOutputs) > 0
    THEN p.structuredOutputs[1].result
    ELSE p.structuredData

\* The proleptic Gregorian calendar of datetime.
IsLeap(y) == (y % 4 = 0 /\ y % 100 # 0) \/ y % 400 = 0

DaysInMonth(y, m) ==
    IF m = 2 THEN (IF IsLeap(y) THEN 29 ELSE 28)
    ELSE IF m \in {4, 6, 9, 11} THEN 30 ELSE 31

\* Days from 1970-01-01 to the date y-m-d.
DaysFromEpoch(y, m, d) ==
    LET yy == IF m <= 2 THEN y - 1 ELSE y
        era == yy \div 400
        yoe == yy - era * 400
        mp == IF m > 2 THEN m - 3 ELSE m + 9
        doy == (153 * mp + 2) \div 5 + d - 1
        doe == yoe * 365 + yoe \div 4 - yoe \div 100 + doy
    IN era * 146097 + doe - 719468

\* The number written in the n characters of s from place i.
Field(s, i, n) == ParseInt(SubSeq(s, i, i + n - 1))

\* datetime.fromisoformat(iso_str.replace('Z', '+00:00')) accepts the string:
\* here the forms YYYY-MM-DDTHH:MM:SSZ and YYYY-MM-DDTHH:MM:SS.mmmZ of a date
\* and time that exist.
IsIsoFormat(s) ==
    /\ Len(s) \in {20, 24}
    /\ s[5] = "-" /\ s[8] = "-" /\ s[11] = "T" /\ s[14] = ":" /\ s[17] = ":"
    /\ s[Len(s)] = "Z"
    /\ Len(s) = 24 => s[20] = "."
    /\ \A i \in (1..(Len(s) - 1)) \ {5, 8, 11, 14, 17, 20} : IsDigit(s[i])
    /\ Field(s, 1, 4) >= 1
    /\ Field(s, 6, 2) \in 1..12
    /\ Field(s, 9, 2) \in 1..DaysInMonth(Field(s, 1, 4), Field(s, 6, 2))
    /\ Field(s, 12, 2) <= 23 /\ Field(s, 15, 2) <= 59 /\ Field(s, 18, 2) <= 59

\* int(dt.timestamp() * 1000) of the parsed string
EpochMs(s) ==
    (((DaysFromEpoch(Field(s, 1, 4), Field(s, 6, 2), Field(s, 9, 2)) * 24
        + Field(s, 12, 2)) * 60 + Field(s, 15, 2)) * 60 + Field(s, 18, 2)) * 1000
    + (IF Len(s) = 24 THEN Field(s, 21, 3) ELSE 0)

\* iso_to_ms: the bare except returns 0 for whatever does not parse, a value
\* that is not a string included.
iso_to_ms(v) == IF v.t = "str" /\ IsIsoFormat(v.s) THEN EpochMs(v.s) ELSE 0

\* The truth value of a JSON member in "if start and end".
Truthy(v) == (v.t = "str" /\ Len(v.s) > 0) \/ (v.t = "num" /\ v.n # 0)

MsPerMinute == 60000

\* duration_min = max(1, (iso_to_ms(end) - iso_to_ms(start)) // 60000)
\*                if start and end else 1
DurationMin(start, end) ==
    IF Truthy(start) /\ Truthy(end)
    THEN LET minutes == (iso_to_ms(end) - iso_to_ms(start)) \div MsPerMinute
         IN IF minutes > 1 THEN minutes ELSE 1
    ELSE 1

\* The first exception the members of db_data raise, in the order they are built.
DbDataRaised(structured, transcript) ==
    IF ToFloat(structured.overall).raised # None THEN ToFloat(structured.overall).raised
    ELSE IF transcript.t # "str" THEN "TypeError"
    ELSE IF \E k \in {"s1", "s2", "s3", "s4", "s5"} : ToInt(structured[k]).raised # None
    THEN "ValueError"
    ELSE None

\* db_data
DbData(session, session_id, duration_min, structured, transcript) ==
    [session_id |-> session_id,
     user_email |-> session.user_email,
     candidate_name |-> session.candidate,
     role |-> session.role_title,
     duration_minutes |-> duration_min,
     overall_score |-> ToFloat(structured.overall).value,
     recommendation |-> Truncate(ToStr(structured.rec, NotAvailable), MaxTextLen),
     transcript |-> Truncate(transcript.s, MaxTranscriptLen),
     score_1 |-> ToInt(structured.s1).value,
     score_2 |-> ToInt(structured.s2).value,
     score_3 |-> ToInt(structured.s3).value,
     score_4 |-> ToInt(structured.s4).value,
     score_5 |-> ToInt(structured.s5).value,
     strength_1 |-> Truncate(ToStr(structured.str1, NotAvailable), MaxTextLen),
     strength_2 |-> Truncate(ToStr(structured.str2, NotAvailable), MaxTextLen),
     strength_3 |-> Truncate(ToStr(structured.str3, NotAvailable), MaxTextLen),
     improvement_1 |-> Truncate(ToStr(structured.imp1, NotAvailable), MaxTextLen),
     improvement_2 |-> Truncate(ToStr(structured.imp2, NotAvailable), MaxTextLen)]

NoPending ==
    [session_id |-> NoSession, call_id |-> None,
     db_data |-> DbData([user_email |-> <<>>, candidate |-> <<>>, role_title |-> None],
                        NoSession, 1, EmptyObject, Str(NoTranscript))]

\* The handler answers without reaching the insert.
Respond(request, response) ==
    /\ req' = request
    /\ resp' = response
    /\ UNCHANGED <<pc, pending>>

\* A link written without the test of session_id.
LinkCallAlways(c2s, call_id, session_id) == Set(c2s, call_id, session_id)

\* if session_id: call_to_session[call_id] = session_id
LinkCall(c2s, call_id, session_id) ==
    IF session_id # NoSession THEN Set(c2s, call_id, session_id) ELSE c2s

\* The "assistant-request" branch.
assistant_request(p) ==
    LET call_id == p.call_id
        assistant_id == AssistantOf(p)
        session_id == Get(assistant_to_session, assistant_id)
    IN /\ call_to_session' = LinkCall(call_to_session, call_id, session_id)
       /\ UNCHANGED <<sessions, assistant_to_session>>
       /\ Respond(WebhookRequest(EventOf(p)), Ok)

\* The "end-of-call-report" branch up to the call of insert(db_data).execute().
end_of_call_report(p) ==
    LET call_id == p.call_id
        session_id == ResolveSession(call_to_session, sessions, call_id)
        request == WebhookRequest(EventOf(p))
        transcript == TranscriptOf(p)
        structured == StructuredOf(p)
        duration_min == DurationMin(p.startedAt, p.endedAt)
    IN /\ UNCHANGED stores
       /\ IF ~SessionFound(sessions, session_id)
          THEN Respond(request, Error("session not found"))
          ELSE IF ~Has(sessions, session_id)
          THEN Respond(request, WebhookCrash("KeyError"))
          ELSE IF DbDataRaised(structured, transcript) # None
          THEN Respond(request, WebhookCrash(DbDataRaised(structured, transcript)))
          ELSE /\ pc' = "insert"
               /\ pending' = [session_id |-> session_id,
                              call_id |-> call_id,
                              db_data |-> DbData(Lookup(sessions, session_id), session_id,
                                                 duration_min, structured, transcript)]
               /\ req' = request
               /\ resp' = NoResponse

\* POST /webhook/vapi, from the request to the response or to the insert. The
\* handler is a coroutine with no await after request.json(): the event loop runs
\* one webhook at a time, and no other webhook starts while one is in the insert.
vapi_webhook(p) ==
    /\ pc = "idle"
    /\ UNCHANGED <<evaluations, issued>>
    /\ IF p.shape = "invalid_json"
       THEN /\ UNCHANGED stores
            /\ Respond(WebhookRequest(None), WebhookCrash("JSONDecodeError"))
       ELSE IF p.shape = "message_not_object"
       THEN /\ UNCHANGED stores
            /\ Respond(WebhookRequest(None), WebhookCrash("AttributeError"))
       ELSE IF Route(EventOf(p)) = "acknowledge"
       THEN /\ UNCHANGED stores
            /\ Respond(WebhookRequest(EventOf(p)), Ok)
       ELSE IF p.shape = "call_not_object"
       THEN /\ UNCHANGED stores
            /\ Respond(WebhookRequest(EventOf(p)), WebhookCrash("AttributeError"))
       ELSE IF Route(EventOf(p)) = "correlate"
       THEN assistant_request(p)
       ELSE end_of_call_report(p)

\* A cleanup of the Session Store with the test turned round: it runs when the
\* insert raised.
SessionsPoppedOnFailure(inserted, s, session_id) ==
    IF inserted THEN s ELSE PopSession(s, session_id)

\* A cleanup of the Session Store that does not wait for the insert to succeed.
SessionsPoppedAlways(inserted, s, session_id) == PopSession(s, session_id)

\* The Session Store after insert(db_data).execute() returned (inserted) or raised:
\* the except branch returns before the cleanup.
SessionsAfterInsert(inserted, s, session_id) ==
    IF inserted THEN PopSession(s, session_id) ELSE s

\* A cleanup that also runs when the insert raised.
CallsPoppedAlways(inserted, c2s, call_id) == Pop(c2s, call_id)

\* call_to_session after the insert returned or raised.
CallsAfterInsert(inserted, c2s, call_id) ==
    IF inserted THEN Pop(c2s, call_id) ELSE c2s

\* The rest of the "end-of-call-report" branch: the insert returns or raises, then
\* the cleanup and the response.
vapi_webhook_insert(inserted) ==
    /\ pc = "insert"
    /\ evaluations' = IF inserted THEN Append(evaluations, pending.db_data)
                      ELSE evaluations
    /\ sessions' = SessionsAfterInsert(inserted, sessions, pending.session_id)
    /\ call_to_session' = CallsAfterInsert(inserted, call_to_session, pending.call_id)
    /\ UNCHANGED <<assistant_to_session, issued>>
    /\ pc' = "idle"
    /\ pending' = NoPending
    /\ req' = WebhookRequest("end-of-call-report")
    /\ resp' = IF inserted THEN Ok ELSE Error("APIError")

----------------------------------------------------------------------------
\* The state machine.

Init ==
    /\ sessions = <<>>
    /\ call_to_session = <<>>
    /\ assistant_to_session = <<>>
    /\ evaluations = <<>>
    /\ pc = "idle"
    /\ pending = NoPending
    /\ req = NoRequest
    /\ resp = NoResponse
    /\ issued = {}
    /\ created = <<>>
    /\ linked = {}
    /\ starting = <<>>

StartSession ==
    /\ \E r \in SessionRequests : start_session(r)
    /\ UNCHANGED <<history, starting>>

VapiWebhook ==
    /\ \E p \in Payloads : vapi_webhook(p)
    /\ UNCHANGED <<history, starting>>

VapiWebhookInsert ==
    /\ \E inserted \in BOOLEAN : vapi_webhook_insert(inserted)
    /\ UNCHANGED <<history, starting>>

Next == StartSession \/ VapiWebhook \/ VapiWebhookInsert

Spec == Init /\ [][Next]_vars

----------------------------------------------------------------------------
\* The normalisation of a report: the same handler, from the state in which a
\* session has been started and its call correlated, fed with ReportPayloads.

NormSession ==
    SessionRecord([role |-> "project_manager", candidate_name |-> <<"A">>,
                   user_email |-> <<"a", "@", "x">>],
                  SessionId("project_manager", 1))

NormInit ==
    /\ sessions = <<NormSession>>
    /\ call_to_session = Set(<<>>, "call_1", NormSession.session_id)
    /\ assistant_to_session = Set(<<>>, "asst_pm", NormSession.session_id)
    /\ evaluations = <<>>
    /\ pc = "idle"
    /\ pending = NoPending
    /\ req = WebhookRequest("assistant-request")
    /\ resp = Ok
    /\ issued = {NormSession.session_id}
    /\ created = <<>>
    /\ linked = {}
    /\ starting = <<>>

NormReport ==
    /\ \E p \in ReportPayloads : vapi_webhook(p)
    /\ UNCHANGED <<history, starting>>

NormInsert ==
    /\ \E inserted \in BOOLEAN : vapi_webhook_insert(inserted)
    /\ UNCHANGED <<history, starting>>

NormNext == NormReport \/ NormInsert

NormSpec == NormInit /\ [][NormNext]_vars

----------------------------------------------------------------------------
\* The same handlers with the history kept: in which order the stored sessions
\* were started, and which links the assistant-requests have made.

\* The bodies of POST /session/start under HistSpec: two candidates for each of
\* the configured roles, and a request that is rejected.
HistRequests ==
    [role : {"project_manager", "team_lead"}, candidate_name : {<<"A">>},
     user_email : {<<"a", "@", "x">>}]
    \cup [role : {"project_manager", "team_lead"}, candidate_name : {Chars(MaxNameLen)},
          user_email : {<<"b", "@", "x">>}]
    \cup [role : {"intern"}, candidate_name : {<<"A">>}, user_email : {<<"a", "@", "x">>}]

\* The bodies of POST /webhook/vapi under HistSpec: assistant requests and
\* end-of-call reports, with and without a call id.
HistPayloads ==
    {Payload("ok", "assistant-request", None, c, None, a, Absent) :
        c \in CallIds \ {None}, a \in {"asst_pm", "asst_tl", "asst_zz"}}
    \cup {Payload("ok", "end-of-call-report", None, c, None, None, Absent) :
            c \in CallIds}

\* start_session stores a session: its id becomes the last started, also when the
\* id was in the store already. The cleanup drops the id it pops.
CreatedAfter ==
    IF req'.op = "start_session" /\ resp'.status = "success"
    THEN Append(SelectSeq(created, LAMBDA k : k # resp'.sessionId), resp'.sessionId)
    ELSE SelectSeq(created, LAMBDA k : Has(sessions', k))

\* Every link call_to_session holds has been made by an assistant-request.
LinkedAfter ==
    linked \cup {<<c, call_to_session'[c]>> : c \in DOMAIN call_to_session'}

Observe ==
    /\ created' = CreatedAfter
    /\ linked' = LinkedAfter
    /\ UNCHANGED starting

HistStartSession ==
    /\ \E r \in HistRequests : start_session(r)
    /\ Observe

HistVapiWebhook ==
    /\ \E p \in HistPayloads : vapi_webhook(p)
    /\ Observe

HistVapiWebhookInsert ==
    /\ \E inserted \in BOOLEAN : vapi_webhook_insert(inserted)
    /\ Observe

HistNext == HistStartSession \/ HistVapiWebhook \/ HistVapiWebhookInsert

HistSpec == Init /\ [][HistNext]_vars

----------------------------------------------------------------------------
\* start_session write by write, so that two calls interleave with each other
\* and with the webhook.

ThreadStore ==
    /\ \E r \in HistRequests : start_session_store(r)
    /\ UNCHANGED history

ThreadLink ==
    /\ \E i \in 1..MaxThreads : start_session_link(i)
    /\ UNCHANGED history

ThreadWebhook ==
    /\ \E p \in HistPayloads : vapi_webhook(p)
    /\ UNCHANGED <<history, starting>>

ThreadInsert ==
    /\ \E inserted \in BOOLEAN : vapi_webhook_insert(inserted)
    /\ UNCHANGED <<history, starting>>

ThreadNext == ThreadStore \/ ThreadLink \/ ThreadWebhook \/ ThreadInsert

ThreadSpec == Init /\ [][ThreadNext]_vars

----------------------------------------------------------------------------
\* Claims.

\* The well-formed payloads of the given branch.
Routed(branch) == {p \in Payloads : p.shape = "ok" /\ Route(EventOf(p)) = branch}

\* The last step was taken by the webhook handler, from the request on.
WebhookStep(event) == pc = "idle" /\ req' = WebhookRequest(event)

\* The members of the report convert: building db_data raises nothing.
BuildsRow(p) == DbDataRaised(StructuredOf(p), TranscriptOf(p)) = None

\* The assistant configured for the role a session identifier names.
AssistantOfSession(session_id) == ROLES[session_id.role].assistant_id

\* C1 as stated: for every session S that start_session has returned for assistant
\* A, an assistant-request carrying A and call C leaves the link C -> S, and an
\* end-of-call-report carrying a call linked to S resolves to S, whatever else
\* has been handled.
C1_AnyIssuedSessionIsLinked ==
    [][/\ WebhookStep("assistant-request")
            => \A p \in Routed("correlate") :
                 vapi_webhook(p)
                     => \A S \in issued :
                           AssistantOfSession(S) = AssistantOf(p)
                               => Get(call_to_session', p.call_id) = S
       /\ WebhookStep("end-of-call-report")
            => \A p \in Routed("finalize") :
                 (/\ BuildsRow(p)
                  /\ Get(call_to_session, p.call_id) # NoSession
                  /\ vapi_webhook(p))
                     => /\ pc' = "insert"
                        /\ pending'.session_id = Get(call_to_session, p.call_id)]_vars

\* C1 amended: start_session leaves the assistant's link on the session it
\* returns; an assistant-request carrying A and call C links C to the session the
\* link of A holds at that moment; an end-of-call-report carrying C, handled while
\* C is linked to S and S is in the store, resolves to S: the row it builds has
\* S's session_id and the candidate and email stored under S, and that row is
\* the one a successful insert commits.
C1_LinkedCallResolvesToItsSession ==
    [][/\ resp'.status = "success"
            => \A r \in SessionRequests :
                 start_session(r)
                     => Get(assistant_to_session', ROLES[r.role].assistant_id)
                            = resp'.sessionId
       /\ WebhookStep("assistant-request")
            => \A p \in Routed("correlate") :
                 (/\ Get(assistant_to_session, AssistantOf(p)) # NoSession
                  /\ vapi_webhook(p))
                     => Get(call_to_session', p.call_id)
                            = Get(assistant_to_session, AssistantOf(p))
       /\ WebhookStep("end-of-call-report")
            => \A p \in Routed("finalize") :
                 (/\ BuildsRow(p)
                  /\ Get(call_to_session, p.call_id) # NoSession
                  /\ Has(sessions, Get(call_to_session, p.call_id))
                  /\ vapi_webhook(p))
                     => LET S == Get(call_to_session, p.call_id)
                        IN /\ pc' = "insert"
                           /\ pending'.session_id = S
                           /\ pending'.db_data.session_id = S
                           /\ pending'.db_data.candidate_name
                                  = Lookup(sessions, S).candidate
                           /\ pending'.db_data.user_email
                                  = Lookup(sessions, S).user_email
       /\ (pc = "insert" /\ vapi_webhook_insert(TRUE))
            => evaluations' = Append(evaluations, pending.db_data)]_vars

\* C1 witness: a report was resolved through its call's link to a session that
\* is not the last one in the store, and its row was built.
C1_Witness ==
    /\ pc = "insert"
    /\ req = WebhookRequest("end-of-call-report")
    /\ Get(call_to_session, pending.call_id) = pending.session_id
    /\ Len(sessions) = 2
    /\ Keys(sessions)[2] # pending.session_id
    /\ pending.db_data.candidate_name = sessions[1].candidate
    /\ pending.db_data.candidate_name # sessions[2].candidate

\* C2: when the insert of an end-of-call-report carrying call C succeeds for
\* session S, S is no key of the Session Store and C no key of the call map
\* afterwards: a lookup of either fails.
C2_CommitRetiresSessionAndLink ==
    [][(pc = "insert" /\ vapi_webhook_insert(TRUE))
          => /\ ~Has(sessions', pending.session_id)
             /\ pending.call_id \notin DOMAIN call_to_session'
             /\ Get(call_to_session', pending.call_id) = NoSession
             /\ evaluations'[Len(evaluations')].session_id = pending.session_id]_vars

\* C2 witness: a report was committed for a linked call while another session
\* stays in the store.
C2_Witness ==
    /\ req = WebhookRequest("end-of-call-report")
    /\ resp = Ok
    /\ pc = "idle"
    /\ Len(evaluations) = 1
    /\ Len(sessions) = 1
    /\ ~Has(sessions, evaluations[1].session_id)

\* C3: when the insert fails, the handler answers {status: "error", message}, the
\* three maps are as they were (neither step of the handler changed them: the
\* resolved session and the call's link are still there) and no row is added.
C3_InsertFailureKeepsState ==
    [][/\ (pc = "insert" /\ vapi_webhook_insert(FALSE))
            => /\ resp'.status = "error"
               /\ resp'.message # None
               /\ UNCHANGED <<sessions, call_to_session, assistant_to_session>>
               /\ UNCHANGED evaluations
               /\ Has(sessions', pending.session_id)
               /\ Get(call_to_session', pending.call_id)
                      = Get(call_to_session, pending.call_id)
       /\ WebhookStep("end-of-call-report")
            => \A p \in Routed("finalize") :
                 vapi_webhook(p)
                     => /\ UNCHANGED <<sessions, call_to_session, assistant_to_session>>
                        /\ UNCHANGED evaluations]_vars

\* C3 witness: an insert failed for a session resolved through its call's link.
C3_Witness ==
    /\ req = WebhookRequest("end-of-call-report")
    /\ resp = Error("APIError")
    /\ Len(sessions) > 0
    /\ \E c \in DOMAIN call_to_session : Has(sessions, call_to_session[c])

\* C4: an end-of-call-report for which no session resolves (no link and an empty
\* store, or a link to a session no longer stored) answers the error "session not
\* found", inserts nothing and changes none of the maps, so the same event
\* repeated finds the same state and fails the same way.
C4_SessionNotFoundIsNoOp ==
    [][WebhookStep("end-of-call-report") => \A p \in Routed("finalize") :
          (/\ LET S == ResolveSession(call_to_session, sessions, p.call_id)
              IN S = NoSession \/ ~Has(sessions, S)
           /\ vapi_webhook(p))
              => /\ resp' = Error("session not found")
                 /\ pc' = "idle"
                 /\ UNCHANGED <<sessions, call_to_session, assistant_to_session>>
                 /\ UNCHANGED evaluations
                 /\ LET S == ResolveSession(call_to_session', sessions', p.call_id)
                    IN S = NoSession \/ ~Has(sessions', S)]_vars

\* C4 witness: the error was answered with an empty store and no link.
C4_Witness ==
    /\ req = WebhookRequest("end-of-call-report")
    /\ resp = Error("session not found")
    /\ sessions = <<>>
    /\ DOMAIN call_to_session = {}

\* C5 as stated: no session identifier appears in more than one committed row.
C5_EachSessionPersistedOnce ==
    \A i, j \in 1..Len(evaluations) :
        i # j => evaluations[i].session_id # evaluations[j].session_id

\* C6: every session identifier that was issued and is no longer in the Session
\* Store has a committed row: a session leaves the store only in the cleanup that
\* follows its successful insert.
C6_RetiredSessionsAreCommitted ==
    \A S \in issued :
        ~Has(sessions, S) => \E i \in 1..Len(evaluations) : evaluations[i].session_id = S

\* C6 witness: an issued session has left the store, after an earlier insert for
\* it had failed.
C6_Witness ==
    /\ \E S \in issued : ~Has(sessions, S)
    /\ resp = Ok
    /\ req = WebhookRequest("end-of-call-report")
    /\ Len(sessions) = 1

\* C7: whatever the payload and the stores, a webhook handler that has answered
\* answered {status: "ok"} or {status: "error", message}, with a success
\* transport status; until then it is in the insert and has answered nothing.
C7_WebhookAlwaysAcknowledges ==
    req.op = "vapi_webhook"
        => IF pc = "insert"
           THEN resp = NoResponse
           ELSE /\ resp.status \in {"ok", "error"}
                /\ resp.code = 200
                /\ resp.status = "error" => resp.message # None
                /\ resp.status = "ok" => resp.message = None

\* C7 witness: an exception raised while normalizing the report of a stored
\* session was answered as an error.
C7_Witness ==
    /\ req = WebhookRequest("end-of-call-report")
    /\ resp = Error("ValueError")
    /\ Len(sessions) > 0

\* The payloads whose message (or, failing that, root) type is neither known kind.
OtherEvents ==
    {p \in Payloads : /\ p.shape \in {"ok", "call_not_object"}
                      /\ EventOf(p) \notin {"assistant-request", "end-of-call-report"}}

\* C8: an event whose type is neither "assistant-request" nor "end-of-call-report",
\* or is missing, is answered {status: "ok"} and changes neither the three maps
\* nor the committed rows.
C8_OtherEventsAreAcknowledged ==
    [][(pc = "idle" /\ req'.op = "vapi_webhook")
          => \A p \in OtherEvents :
               vapi_webhook(p)
                   => /\ resp' = Ok
                      /\ pc' = "idle"
                      /\ UNCHANGED <<sessions, call_to_session, assistant_to_session>>
                      /\ UNCHANGED evaluations]_vars

\* C8 witness: an event without a type was acknowledged while a session and a
\* call link exist.
C8_Witness ==
    /\ req = WebhookRequest(None)
    /\ resp = Ok
    /\ Len(sessions) > 0
    /\ DOMAIN call_to_session # {}

\* C9 as stated: the identifier a successful start_session returns names the
\* role, was not issued before and is no key of the Session Store, so no stored
\* session is overwritten.
C9_SessionIdIsFresh ==
    [][resp'.status = "success"
          => \A r \in SessionRequests :
               start_session(r)
                   => /\ resp'.sessionId.role = r.role
                      /\ resp'.sessionId \notin issued
                      /\ ~Has(sessions, resp'.sessionId)]_vars

\* The requests the claim says are rejected.
MustBeRejected ==
    {r \in SessionRequests :
        \/ Len(r.candidate_name) = 0
        \/ Len(r.candidate_name) > 100
        \/ ~HasAt(r.user_email)
        \/ r.role \notin DOMAIN ROLES
        \/ ROLES[r.role].assistant_id = None}

\* C10: start_session rejects a candidate name of length 0 or above 100, an email
\* without "@", an unregistered role and a role whose assistant is unset, and a
\* rejected request adds no session and changes none of the maps.
C10_InvalidRequestsAreRejected ==
    [][req' = StartRequest
          => \A r \in MustBeRejected :
               start_session(r)
                   => /\ resp'.status = "rejected"
                      /\ UNCHANGED <<sessions, call_to_session, assistant_to_session>>
                      /\ UNCHANGED issued]_vars

\* C10 witness: a request was rejected for its email while a session is stored.
C10_Witness ==
    /\ req = StartRequest
    /\ resp = Rejected(400, "Invalid email address")
    /\ Len(sessions) > 0

\* What the claims on the normalisation expect of a report.

\* The step is the normalisation of a report, up to the insert.
BuildStep == pc = "idle" /\ pc' = "insert"

\* The scores and the recommendation a row holds.
ScoresOf(row) ==
    <<row.overall_score, row.score_1, row.score_2, row.score_3, row.score_4,
      row.score_5, row.recommendation>>

\* The same members as an object of the report gives them.
ScoresIn(object) ==
    <<ToFloat(object.overall).value, ToInt(object.s1).value, ToInt(object.s2).value,
      ToInt(object.s3).value, ToInt(object.s4).value, ToInt(object.s5).value,
      Truncate(ToStr(object.rec, NotAvailable), MaxTextLen)>>

\* C11: the scores of the row a report commits are those of the first entry's
\* "result" of structuredOutputs whenever that collection is not empty, also
\* when analysis.structuredData is there too; those of analysis.structuredData
\* only when the collection is missing or empty; and the defaults of the empty
\* object when neither is there.
C11_StructuredOutputsFirst ==
    [][BuildStep => \A p \in ReportPayloads :
          vapi_webhook(p)
              => /\ p.structuredOutputs # <<>>
                    => ScoresOf(pending'.db_data)
                           = ScoresIn(Head(p.structuredOutputs).result)
                 /\ p.structuredOutputs = <<>>
                    => ScoresOf(pending'.db_data) = ScoresIn(p.structuredData)
                 /\ (p.structuredOutputs = <<>> /\ p.structuredData = EmptyObject)
                    => ScoresOf(pending'.db_data)
                           = <<0, 0, 0, 0, 0, 0, NotAvailable>>]_vars

\* A row is committed with the scores of the first structured output of a report
\* whose analysis.structuredData says otherwise.
C11_Witness ==
    \E i \in 1..Len(evaluations) :
        ScoresOf(evaluations[i]) = <<9, 9, 8, 0, 0, 0, <<"h", "i", "r", "e">> >>


\* A timestamp of a report is there and parses.
Parses(v) == v.t = "str" /\ IsIsoFormat(v.s)

\* C12 as stated: the duration_minutes of the row a report commits is 1 whenever
\* its start or its end timestamp is missing or does not parse, and otherwise
\* the whole minutes from start to end, floored, and at least 1, also when the
\* end lies before the start.
C12_DurationDefaultsToOneMinute ==
    [][BuildStep => \A p \in ReportPayloads :
          vapi_webhook(p)
              => pending'.db_data.duration_minutes =
                    IF Parses(p.startedAt) /\ Parses(p.endedAt)
                    THEN LET minutes == (EpochMs(p.endedAt.s) - EpochMs(p.startedAt.s))
                                            \div MsPerMinute
                         IN IF minutes > 1 THEN minutes ELSE 1
                    ELSE 1]_vars


\* The free texts of a row, and the values they are extracted from.
FreeTextsOf(row) ==
    <<row.recommendation, row.strength_1, row.strength_2, row.strength_3,
      row.improvement_1, row.improvement_2>>

ExtractedTexts(object) ==
    <<ToStr(object.rec, NotAvailable), ToStr(object.str1, NotAvailable),
      ToStr(object.str2, NotAvailable), ToStr(object.str3, NotAvailable),
      ToStr(object.imp1, NotAvailable), ToStr(object.imp2, NotAvailable)>>

\* cut is the first n characters of text, and text itself when it has no more.
IsFirstChars(cut, text, n) ==
    /\ Len(cut) <= n
    /\ Len(cut) <= Len(text)
    /\ \A i \in 1..Len(cut) : cut[i] = text[i]
    /\ Len(text) > n => Len(cut) = n
    /\ Len(text) <= n => cut = text

\* C13: every free text of the row a report builds is the first 500 characters
\* of the extracted value and the transcript the first 3000 characters of the
\* report's transcript, a shorter value being kept as it is; and the row a
\* successful insert commits is that row, its texts within 500 and 3000.
C13_TextsAreCutToTheirLimits ==
    [][/\ BuildStep => \A p \in ReportPayloads :
            vapi_webhook(p)
                => /\ \A k \in 1..6 :
                         IsFirstChars(FreeTextsOf(pending'.db_data)[k],
                                      ExtractedTexts(StructuredOf(p))[k], 500)
                   /\ IsFirstChars(pending'.db_data.transcript,
                                   TranscriptOf(p).s, 3000)
       /\ (pc = "insert" /\ Len(evaluations') > Len(evaluations))
            => LET row == evaluations'[Len(evaluations')]
               IN /\ row = pending.db_data
                  /\ \A k \in 1..6 : Len(FreeTextsOf(row)[k]) <= 500
                  /\ Len(row.transcript) <= 3000]_vars

\* A row is committed whose recommendation is the first 500 of 1200 characters
\* and whose transcript is the first 3000 of 3001.
C13_Witness ==
    \E i \in 1..Len(evaluations) :
        /\ evaluations[i].recommendation = SubSeq(Text(1200), 1, 500)
        /\ evaluations[i].transcript = SubSeq(Text(3001), 1, 3000)


\* The end-of-call-reports and the assistant-requests of HistPayloads.
HistReports == {p \in HistPayloads : EventOf(p) = "end-of-call-report"}

HistAssistantRequests == {p \in HistPayloads : EventOf(p) = "assistant-request"}

\* C14 as stated: an end-of-call-report whose call has no link, handled while the
\* store is not empty, resolves to the session started last among those in the
\* store, and a successful insert commits the record stored under that session
\* and removes it.
C14_FallbackTakesLastCreated ==
    [][/\ WebhookStep("end-of-call-report")
            => \A p \in HistReports :
                 (/\ Get(call_to_session, p.call_id) = NoSession
                  /\ Len(sessions) > 0
                  /\ vapi_webhook(p))
                     => /\ pc' = "insert"
                        /\ pending'.session_id = created[Len(created)]
       /\ (/\ pc = "insert"
           /\ Get(call_to_session, pending.call_id) = NoSession
           /\ Len(evaluations') > Len(evaluations))
            => /\ evaluations'[Len(evaluations')].session_id = pending.session_id
               /\ evaluations'[Len(evaluations')].candidate_name
                      = Lookup(sessions, pending.session_id).candidate
               /\ ~Has(sessions', pending.session_id)]_vars


\* The sessions of a store other than the one under k, in their order.
OtherSessions(s, k) == SelectSeq(s, LAMBDA r : r.session_id # k)

AssistantRequests ==
    {p \in Payloads : /\ p.shape \in {"ok", "call_not_object"}
                      /\ EventOf(p) = "assistant-request"}

\* C16: an assistant-request changes neither the Session Store nor
\* assistant_to_session nor the rows, and of call_to_session at most the link of
\* its own call id; when its assistant has no link it changes nothing at all,
\* raises nothing and is answered ok.
C16_AssistantRequestLinksOwnCallOnly ==
    [][WebhookStep("assistant-request")
          => /\ UNCHANGED <<sessions, assistant_to_session, evaluations>>
             /\ \A p \in AssistantRequests :
                  vapi_webhook(p)
                      => /\ \A c \in DOMAIN call_to_session' \ {p.call_id} :
                               c \in DOMAIN call_to_session
                         /\ \A c \in DOMAIN call_to_session \ {p.call_id} :
                               /\ c \in DOMAIN call_to_session'
                               /\ call_to_session'[c] = call_to_session[c]
                         /\ (/\ p.shape = "ok"
                             /\ Get(assistant_to_session, AssistantOf(p)) = NoSession)
                               => /\ UNCHANGED call_to_session
                                  /\ resp' = Ok]_vars

\* An assistant-request whose assistant has no link was answered ok while other
\* assistants have theirs, and no call is linked.
C16_Witness ==
    /\ req = WebhookRequest("assistant-request")
    /\ resp = Ok
    /\ DOMAIN assistant_to_session # {}
    /\ DOMAIN call_to_session = {}


\* C17 as stated: the links of call_to_session go with their session; every
\* session identifier a call is linked to is a key of the Session Store.
C17_LinksPointToStoredSessions ==
    \A c \in DOMAIN call_to_session : Has(sessions, call_to_session[c])


\* C18 as stated: resolving, reading, committing and deleting a session is one
\* step per session, however report handlers and start_session calls interleave.
\* A handler builds its row from a session that is in the store; while it is in
\* the insert the session stays in the store with the record the row was built
\* from; and the session it commits has no row yet.
C18_ReportHandlingIsOneStep ==
    [][/\ pc' = "insert" => Has(sessions', pending'.session_id)
       /\ pc = "insert"
            => /\ Has(sessions, pending.session_id)
               /\ Lookup(sessions, pending.session_id).candidate
                      = pending.db_data.candidate_name
               /\ Lookup(sessions, pending.session_id).user_email
                      = pending.db_data.user_email
       /\ (pc = "insert" /\ Len(evaluations') > Len(evaluations))
            => \A i \in 1..Len(evaluations) :
                   evaluations[i].session_id # pending.session_id]_vars


\* A successful insert: the step that adds a row.
CommitStep == pc = "insert" /\ Len(evaluations') > Len(evaluations)

\* C19 as stated: for a call C that an assistant-request has linked to S at some
\* point, a report carrying C resolves to S only, and every row committed while
\* handling it has the session_id S; after S is retired a further report for C
\* commits nothing.
C19_CallCommitsItsSessionOnly ==
    [][/\ (pc = "idle" /\ pc' = "insert")
            => \A l \in linked :
                 l[1] = pending'.call_id => pending'.session_id = l[2]
       /\ CommitStep
            => \A l \in linked :
                 l[1] = pending.call_id
                     => evaluations'[Len(evaluations')].session_id = l[2]]_vars

\* C19 amended: while call C is linked to S, a report carrying C resolves to S
\* alone: it commits a row with the session_id S when S is in the store, and
\* when S is retired it answers "session not found", changes nothing and takes
\* no other session. A successful commit removes the link of C; a report for C
\* that comes after that is the report of an unlinked call, which commits
\* nothing when the store is empty and otherwise the last session of the store.
C19_LinkedCallCommitsItsSessionOnly ==
    [][/\ WebhookStep("end-of-call-report")
            => \A p \in HistReports :
                 vapi_webhook(p)
                     => LET S == Get(call_to_session, p.call_id)
                        IN IF S # NoSession /\ Has(sessions, S)
                           THEN pc' = "insert" /\ pending'.session_id = S
                           ELSE IF S # NoSession \/ Len(sessions) = 0
                           THEN /\ resp' = Error("session not found")
                                /\ pc' = "idle"
                                /\ UNCHANGED <<stores, evaluations>>
                           ELSE /\ pc' = "insert"
                                /\ pending'.session_id
                                       = sessions[Len(sessions)].session_id
       /\ CommitStep
            => /\ evaluations'[Len(evaluations')].session_id = pending.session_id
               /\ Get(call_to_session, pending.call_id)
                      \in {NoSession, pending.session_id}
               /\ pending.call_id \notin DOMAIN call_to_session']_vars

\* A report for a call whose session was committed and retired is handled again:
\* the call has no link any more, and the handler is in the insert with another
\* session.
C19_Witness ==
    /\ pc = "insert"
    /\ \E l \in linked :
         /\ l[1] = pending.call_id
         /\ l[2] # pending.session_id
         /\ ~Has(sessions, l[2])
         /\ \E i \in 1..Len(evaluations) : evaluations[i].session_id = l[2]
    /\ pending.call_id \notin DOMAIN call_to_session


\* C20: whenever the webhook answers error, whether no session resolved, the
\* insert raised or any other exception was caught, the three maps and the rows
\* are what they were before the step, and so they are after the step that took
\* the handler to the insert: an error leaves no part of an update behind.
C20_ErrorAnswersChangeNothing ==
    [][/\ (req'.op = "vapi_webhook" /\ resp'.status = "error")
            => UNCHANGED <<stores, evaluations>>
       /\ (pc = "idle" /\ pc' = "insert")
            => UNCHANGED <<stores, evaluations>>]_vars

\* The webhook has answered error for a score that is no number while a session
\* is stored and a call linked.
C20_Witness ==
    /\ req = WebhookRequest("end-of-call-report")
    /\ resp = Error("ValueError")
    /\ Len(sessions) > 0
    /\ DOMAIN call_to_session # {}


====
